---- MODULE Spec2Model ----
(***************************************************************************)
(* Model of src/internal/registry.rs: the Registry facade, the Requests    *)
(* table (sessions, session_request_ids, assocs), the SessionImpl view an  *)
(* operation receives during a callback, and the dispatch / sweep logic.   *)
(*                                                                         *)
(* Every public Registry method is one action.  The Operation callbacks    *)
(* (send, receive, retry, check_and_retry) are code outside registry.rs:   *)
(* a callback is modelled as any sequence of at most MaxCalls Session      *)
(* calls on the session it is handed, followed by any result.              *)
(*                                                                         *)
(* Spec is the program with operations that keep the Session contract.     *)
(* AnySpec adds operations that call pop and using on ids outside their    *)
(* running-list.  RecordSpec is Spec with the failed signals of earlier    *)
(* steps kept on record.                                                   *)
(***************************************************************************)
EXTENDS Integers, Sequences, FiniteSets, TLC

\* ------------------------------------------------------------------ bounds
NumOps   == 2
MaxIds   == 2
MaxCalls == 2

OperationIds == 1 .. NumOps
Uuids        == 1 .. MaxIds
ConnIds      == {"connA"}
NoConn       == "none"
ReplyCmds    == {"BadRequest", "NotAuthenticated", "NotHandled", "WriteEventsCompleted"}
NotHandledPayloads == {"NotReady", "TooBusy", "NotMaster", "garbled"}
NoOp         == 0
NoId         == 0

VARIABLES
    sessions,             \* Requests.sessions: OperationId -> OperationWrapper
    session_request_ids,  \* Requests.session_request_ids: OperationId -> Vec<Uuid>
    assocs,               \* Requests.assocs: Uuid -> Request
    awaiting,             \* Registry.awaiting: Vec<OperationWrapper>
    uuid,                 \* the next request id Tracking::new hands out
    unregistered,         \* operations constructed but not yet given to register
    panicked,             \* "" or the message of the expect() that aborted the process
    frame,                \* where Registry::check_and_retry stands: pc, the operations
                          \* its sweep has still to visit, sessions_to_delete
    failed,               \* history, kept by RecordSpec only: the operations that
                          \* received a failed signal in an earlier step
    last                  \* history: the last step taken (a public call, or one step
                          \* of Registry::check_and_retry), the callbacks it made, the
                          \* number of requests they created and the packages forwarded

vars == <<sessions, session_request_ids, assocs, awaiting, uuid, unregistered,
          panicked, frame, failed, last>>

\* ----------------------------------------------------------------- helpers
Range(s) == {s[i] : i \in 1 .. Len(s)}

Put(f, k, v) == [x \in DOMAIN f \cup {k} |-> IF x = k THEN v ELSE f[x]]

Remove(f, k) == [x \in DOMAIN f \ {k} |-> f[x]]

RemoveAt(s, i) == SubSeq(s, 1, i - 1) \o SubSeq(s, i + 1, Len(s))

position(s, x) == CHOOSE i \in 1 .. Len(s) : s[i] = x /\ \A j \in 1 .. (i - 1) : s[j] # x

EmptyMap == [x \in {} |-> 0]

\* ------------------------------------------------------ Request and Tracking
Tracking_new(cmd, conn_id, fresh) == [id |-> fresh, cmd |-> cmd, conn |-> conn_id]

Request_new(session, cmd, conn_id, fresh) ==
    [session |-> session, tracker |-> Tracking_new(cmd, conn_id, fresh)]

\* An operation: its id, the Trackings it holds after popping them, and whether
\* its callbacks break the Session contract (calls on ids that are not its own).
OperationWrapper(id) == [id |-> id, held |-> {}, rogue |-> FALSE]

RogueOperation(id) == [OperationWrapper(id) EXCEPT !.rogue = TRUE]

\* --------------------------------------------------------------- SessionImpl
\* The view a callback works on: the operation id, the table's assocs, the
\* connection, the operation's running-list; with it travel the operation that
\* is called (the Trackings it holds, its nature), the Uuid source, and the
\* record of the calls made on ids outside the running-list.
SessionImpl_new(id, as, conn, runnings, op, fresh) ==
    [id |-> id, assocs |-> as, conn |-> conn, runnings |-> runnings,
     held |-> op.held, rogue |-> op.rogue, uuid |-> fresh, panic |-> "", log |-> <<>>]

\* A terminate that clears the reverse index instead of removing the given ids.
terminate_all(as, runnings) == [x \in {} |-> as[x]]

terminate(as, runnings) == [x \in DOMAIN as \ Range(runnings) |-> as[x]]

new_request(s, cmd) ==
    LET req == Request_new(s.id, cmd, s.conn, s.uuid)
        id  == req.tracker.id
    IN  [s EXCEPT !.assocs = Put(@, id, req),
                  !.runnings = Append(@, id),
                  !.uuid = @ + 1]

pop_found(s, id) == id \in DOMAIN s.assocs

\* A pop that forgets self.runnings.remove(pos).
pop_keeps_running(s, id) ==
    IF id \in DOMAIN s.assocs
    THEN [s EXCEPT !.assocs = Remove(@, id), !.held = @ \cup {s.assocs[id].tracker}]
    ELSE s

\* Some(req): the entry is already out of assocs when position(..).unwrap()
\* runs, so an id missing from the running-list panics with the entry gone.
pop(s, id) ==
    IF pop_found(s, id)
    THEN IF id \in Range(s.runnings)
         THEN [s EXCEPT !.assocs = Remove(@, id),
                        !.runnings = RemoveAt(@, position(@, id)),
                        !.held = @ \cup {s.assocs[id].tracker}]
         ELSE [s EXCEPT !.assocs = Remove(@, id),
                        !.panic = "unwrap on None"]
    ELSE s

\* A reuse that re-inserts the request and forgets self.runnings.push(id).
reuse_forgets_running(s, tracker) ==
    [s EXCEPT !.assocs = Put(@, tracker.id, [session |-> s.id, tracker |-> tracker]),
              !.held = @ \ {tracker}]

reuse(s, tracker) ==
    [s EXCEPT !.runnings = Append(@, tracker.id),
              !.assocs = Put(@, tracker.id, [session |-> s.id, tracker |-> tracker]),
              !.held = @ \ {tracker}]

\* Ok(&mut req.tracker) for whatever id the table's reverse index holds, Err
\* otherwise; the session's bookkeeping is not written.
using(s, id) == [found |-> id \in DOMAIN s.assocs, s |-> s]

\* self.assocs.values().map(|req| &req.tracker).collect()
requests(s) == {s.assocs[id].tracker : id \in DOMAIN s.assocs}

Session_terminate(s) ==
    [s EXCEPT !.assocs = terminate(s.assocs, s.runnings), !.runnings = <<>>]

has_running_requests(s) == s.runnings # <<>>

\* ------------------------------------------------------- Operation callbacks
\* The command an operation issues its requests with: an operation is a
\* write or a read, and all its requests carry its command.
CmdOf(id) == IF id % 2 = 1 THEN "WriteEvents" ELSE "ReadEvent"

\* One Session call of an operation that keeps the Session contract: it pops
\* ids of its own running-list and reuses Trackings it popped before.
SessionCalls(s) ==
    {new_request(s, c) : c \in {c \in {CmdOf(s.id)} : s.uuid <= MaxIds}}
        \cup {pop(s, id) : id \in Range(s.runnings)}
        \cup {using(s, id).s : id \in Range(s.runnings)}
        \cup {reuse(s, t) : t \in s.held}
        \cup {Session_terminate(s)}

\* A call on an id that is not in the session's running-list, with what it
\* returned and whether it left the running-list and the reverse index alone.
Logged(s, call, id, not_found, t) ==
    [t EXCEPT !.log = Append(@, [call |-> call, id |-> id, not_found |-> not_found,
                                 unchanged |-> t.assocs = s.assocs
                                               /\ t.runnings = s.runnings])]

\* One Session call of an operation that breaks the contract: pop or using of
\* an id its running-list does not hold.
RogueCalls(s) ==
    {Logged(s, "pop", id, ~pop_found(s, id), pop(s, id)) :
        id \in Uuids \ Range(s.runnings)}
    \cup {Logged(s, "using", id, ~using(s, id).found, using(s, id).s) :
        id \in Uuids \ Range(s.runnings)}

OperationCalls(s) == IF s.rogue THEN SessionCalls(s) \cup RogueCalls(s) ELSE SessionCalls(s)

RECURSIVE Steps(_, _)
Steps(s, k) ==
    IF k = 0 \/ s.panic # "" THEN {s}
    ELSE {s} \cup UNION {Steps(t, k - 1) : t \in OperationCalls(s)}

PkgFor(s, id) == [correlation |-> id, cmd |-> CmdOf(s.id), payload |-> "request"]

\* The packages an Ok outcome carries: one per request the step left outstanding.
produced_pkgs(s) == [i \in 1 .. Len(s.runnings) |-> PkgFor(s, s.runnings[i])]

ImplResults(s) ==
    {[ok |-> TRUE, done |-> FALSE, pkgs |-> produced_pkgs(s)],
     [ok |-> FALSE, done |-> FALSE, pkgs |-> <<>>]}

CheckResults(s) == ImplResults(s) \cup {[ok |-> TRUE, done |-> TRUE, pkgs |-> <<>>]}

Callback(s) ==
    UNION {{[s |-> t, out |-> r] : r \in ImplResults(t)} : t \in Steps(s, MaxCalls)}

CheckCallback(s) ==
    UNION {{[s |-> t, out |-> r] : r \in CheckResults(t)} : t \in Steps(s, MaxCalls)}

\* ------------------------------------------------------------ Pkg decoding
Pkgs ==
    {[correlation |-> i, cmd |-> c, payload |-> p] :
        i \in Uuids, c \in ReplyCmds \ {"NotHandled"}, p \in {"body"}}
    \cup {[correlation |-> i, cmd |-> "NotHandled", payload |-> p] :
        i \in Uuids, p \in NotHandledPayloads}

NoPkg == [correlation |-> NoId, cmd |-> "-", payload |-> "-"]

to_message(pkg) ==
    IF pkg.payload \in {"NotReady", "TooBusy", "NotMaster"}
    THEN [ok |-> TRUE, reason |-> pkg.payload]
    ELSE [ok |-> FALSE, reason |-> "-"]

\* ----------------------------------------------------------------- history
\* One callback invocation: which callback, on which operation, its request-id
\* argument (retry, receive), its result ("Ok", "Err", "Done") or the error
\* kind handed to failed, and whether arg was in the running-list / the
\* reverse index when the callback started.
Ev(cb, op, arg, kind, inRun, inAssocs) ==
    [cb |-> cb, op |-> op, arg |-> arg, kind |-> kind, inRun |-> inRun, inAssocs |-> inAssocs]

Result(out) == IF ~out.ok THEN "Err" ELSE IF out.done THEN "Done" ELSE "Ok"

CallbackEv(cb, op, out) == Ev(cb, op, NoId, Result(out), FALSE, FALSE)

FailedEv(op, kind) == Ev("failed", op, NoId, kind, FALSE, FALSE)

\* What a dispatch that found its request, or one iteration of the sweep, did:
\* the owning operation, the Out value (the check's result in the sweep), the
\* packages the operation's step produced, the running-list the step started
\* with, the one it left and the one the cleanup left, and what requests()
\* returned to the operation when its step started, and the calls the step
\* made on ids outside its running-list.
NoDispatch == [owner |-> NoOp, out |-> "-", produced |-> <<>>, startRunnings |-> <<>>,
               stepRunnings |-> <<>>, finalRunnings |-> <<>>, requests |-> {},
               log |-> <<>>]

\* The machine state the methods transform: the tables, and the callbacks made
\* and packages forwarded by the step that is running.
Cur ==
    [sessions |-> sessions, session_request_ids |-> session_request_ids,
     assocs |-> assocs, awaiting |-> awaiting, uuid |-> uuid, panic |-> "",
     events |-> <<>>, enqueued |-> <<>>, dispatch |-> NoDispatch]

enqueue_all(M, pkgs) == [M EXCEPT !.enqueued = @ \o pkgs]

\* A callback panicked inside a Session call: the method is unwound where it
\* stands.  What the session wrote through its borrows (assocs, the
\* running-list when it is the table's) stays written, nothing after the
\* callback runs.
unwind(M, s) ==
    [M EXCEPT !.assocs = s.assocs, !.uuid = s.uuid, !.panic = s.panic,
              !.session_request_ids = IF s.id \in DOMAIN @ THEN Put(@, s.id, s.runnings)
                                      ELSE @,
              !.dispatch = [NoDispatch EXCEPT !.owner = s.id, !.out = "panic",
                                              !.stepRunnings = s.runnings,
                                              !.log = s.log]]

\* --------------------------------------------------------- Requests::register
\* A registration that commits on success and forgets the unwinding on failure.
register_commit_no_unwind(M, op, runnings, success) ==
    IF ~success
    THEN M
    ELSE [M EXCEPT !.session_request_ids = Put(@, op.id, runnings),
                   !.sessions = Put(@, op.id, op)]

register_commit(M, op, runnings, success) ==
    IF ~success
    THEN [M EXCEPT !.assocs = terminate(@, runnings)]
    ELSE [M EXCEPT !.session_request_ids = Put(@, op.id, runnings),
                   !.sessions = Put(@, op.id, op)]

register_send(M, op, r) ==
    LET M1 == [M EXCEPT !.assocs = r.s.assocs, !.uuid = r.s.uuid,
                        !.panic = r.s.panic,
                        !.events = Append(@, CallbackEv("send", op.id, r.out))]
        M2 == IF r.out.ok THEN enqueue_all(M1, r.out.pkgs) ELSE M1
    IN  IF r.s.panic # "" THEN unwind(M, r.s)
        ELSE register_commit(M2, [op EXCEPT !.held = r.s.held], r.s.runnings, r.out.ok)

Requests_register(M, conn, op) ==
    LET session == SessionImpl_new(op.id, M.assocs, conn, <<>>, op, M.uuid)
    IN  {register_send(M, op, r) : r \in Callback(session)}

\* -------------------------------------------------------- Requests::handle_pkg
\* The match on pkg.cmd: the set of (session after the step, Out, callbacks,
\* packages to forward) the dispatch can end in.
Dispatched(s, out, events, pkgs, produced) ==
    [s |-> s, out |-> out, events |-> events, pkgs |-> pkgs, produced |-> produced]

dispatch_retry(session, op, pkg_id) ==
    LET ev(out) == Ev("retry", op.id, pkg_id, Result(out),
                      pkg_id \in Range(session.runnings), pkg_id \in DOMAIN session.assocs)
    IN  {IF r.out.ok
         THEN Dispatched(r.s, "Handled", <<ev(r.out)>>, r.out.pkgs, r.out.pkgs)
         ELSE Dispatched(r.s, "Failed", <<ev(r.out)>>, <<>>, <<>>) : r \in Callback(session)}

dispatch_not_handled(session, op, pkg) ==
    LET msg == to_message(pkg)
    IN  IF msg.ok
        THEN IF msg.reason = "NotMaster"
             THEN {Dispatched(session, "Failed", <<FailedEv(op.id, "NotImplemented")>>,
                              <<>>, <<>>)}
             ELSE dispatch_retry(session, op, pkg.correlation)
        ELSE {Dispatched(session, "Failed", <<>>, <<>>, <<>>)}

dispatch_receive(session, op, pkg) ==
    LET ev(out) == Ev("receive", op.id, pkg.correlation, Result(out),
                      pkg.correlation \in Range(session.runnings),
                      pkg.correlation \in DOMAIN session.assocs)
    IN  {IF r.out.ok
         THEN Dispatched(r.s, "Handled", <<ev(r.out)>>, r.out.pkgs, r.out.pkgs)
         ELSE Dispatched(r.s, "Failed",
                         <<ev(r.out), FailedEv(op.id, "InvalidOperation")>>, <<>>, <<>>)
            : r \in Callback(session)}

dispatch(session, op, pkg) ==
    CASE pkg.cmd = "BadRequest" ->
            {Dispatched(session, "Failed", <<FailedEv(op.id, "ServerError")>>, <<>>, <<>>)}
      [] pkg.cmd = "NotAuthenticated" ->
            {Dispatched(session, "Failed", <<FailedEv(op.id, "AuthenticationRequired")>>,
                        <<>>, <<>>)}
      [] pkg.cmd = "NotHandled" -> dispatch_not_handled(session, op, pkg)
      [] OTHER -> dispatch_receive(session, op, pkg)

\* A failure cleanup that drains the running-list and leaves assocs alone.
handle_failed_keeps_assocs(s, out) ==
    IF out = "Failed" THEN [s EXCEPT !.runnings = <<>>] ELSE s

\* A failure cleanup that scrubs the whole reverse index.
handle_failed_scrubs_table(s, out) ==
    IF out = "Failed" THEN [s EXCEPT !.assocs = EmptyMap, !.runnings = <<>>] ELSE s

\* if let Out::Failed = out { terminate(assocs, runnings.drain(..)) }
handle_failed(s, out) ==
    IF out = "Failed" THEN Session_terminate(s) ELSE s

\* A dispatch that never finds the session over.
session_over_never(runnings) == FALSE

session_over(runnings) == runnings = <<>>

handle_finish(M, session, op, d) ==
    LET s  == handle_failed(d.s, d.out)
        session_id == session.id
        M1 == [M EXCEPT !.assocs = s.assocs, !.uuid = s.uuid, !.panic = s.panic,
                        !.events = @ \o d.events,
                        !.dispatch = [owner |-> session_id, out |-> d.out,
                                      produced |-> d.produced,
                                      startRunnings |-> session.runnings,
                                      stepRunnings |-> d.s.runnings,
                                      finalRunnings |-> s.runnings,
                                      requests |-> requests(session),
                                      log |-> d.s.log]]
        M2 == IF d.pkgs # <<>> THEN enqueue_all(M1, d.pkgs) ELSE M1
    IN  IF d.s.panic # "" THEN unwind(M, d.s)
        ELSE IF session_over(s.runnings)
        THEN [M2 EXCEPT !.sessions = Remove(@, session_id),
                        !.session_request_ids = Remove(@, session_id)]
        ELSE [M2 EXCEPT !.sessions = Put(@, session_id, [op EXCEPT !.held = s.held]),
                        !.session_request_ids = Put(@, session_id, s.runnings)]

\* A dispatch that does not put the request back before the step.
reinsert_skipped(removed, pkg_id, req) == removed

\* self.assocs.insert(pkg_id, req): the request goes back before the step.
reinsert(removed, pkg_id, req) == Put(removed, pkg_id, req)

\* An else branch that takes the unknown reply for a broken connection and
\* clears the table.
handle_unknown_resets(M, pkg) ==
    [M EXCEPT !.sessions = EmptyMap, !.session_request_ids = EmptyMap, !.assocs = EmptyMap]

\* The else branch: warn!("Package [{}] not handled ...") and nothing else.
handle_unknown(M, pkg) == M

handle_pkg(M, conn, pkg) ==
    LET pkg_id == pkg.correlation
    IN  IF pkg_id \in DOMAIN M.assocs
        THEN LET req        == M.assocs[pkg_id]
                 removed    == Remove(M.assocs, pkg_id)
                 session_id == req.session
             IN  IF session_id \notin DOMAIN M.session_request_ids
                 THEN {[M EXCEPT !.assocs = removed,
                                 !.panic = "No session associated to request!"]}
                 ELSE IF session_id \notin DOMAIN M.sessions
                 THEN {[M EXCEPT !.assocs = removed, !.panic = "Unknown session!"]}
                 ELSE LET runnings == M.session_request_ids[session_id]
                          op       == M.sessions[session_id]
                          session  == SessionImpl_new(session_id,
                                          reinsert(removed, pkg_id, req), conn, runnings,
                                          op, M.uuid)
                      IN  {handle_finish(M, session, op, d) :
                              d \in dispatch(session, op, pkg)}
        ELSE {handle_unknown(M, pkg)}

\* --------------------------------------------------- Requests::check_and_retry
\* A sweep that schedules for removal only the operations that are done.
sweep_deletes_done_only(r) == r.out.ok /\ r.out.done

\* sessions_to_delete.push(op.id): on Ok(outcome) with is_done(), and on Err.
sweep_deletes(r) == ~r.out.ok \/ r.out.done

\* A sweep that drains the running-list and leaves the reverse index alone.
sweep_drain_keeps_assocs(M, id) == [M EXCEPT !.session_request_ids = Put(@, id, <<>>)]

\* for id in runnings.drain(..) { assocs.remove(&id) }
sweep_drain(M, id) ==
    [M EXCEPT !.assocs = terminate(@, M.session_request_ids[id]),
              !.session_request_ids = Put(@, id, <<>>)]

sweep_result(M, session, op, r) ==
    LET M1 == [M EXCEPT !.assocs = r.s.assocs, !.uuid = r.s.uuid, !.panic = r.s.panic,
                        !.sessions = Put(@, op.id, [op EXCEPT !.held = r.s.held]),
                        !.session_request_ids = Put(@, op.id, r.s.runnings),
                        !.events = Append(@, CallbackEv("check_and_retry", op.id, r.out)),
                        !.dispatch = [owner |-> op.id, out |-> Result(r.out),
                                      produced |-> r.out.pkgs,
                                      startRunnings |-> session.runnings,
                                      stepRunnings |-> r.s.runnings,
                                      finalRunnings |-> IF sweep_deletes(r) THEN <<>>
                                                        ELSE r.s.runnings,
                                      requests |-> requests(session),
                                      log |-> r.s.log]]
    IN  IF r.s.panic # "" THEN unwind(M, r.s)
        ELSE IF r.out.ok
        THEN IF r.out.done
             THEN sweep_drain(M1, op.id)
             ELSE IF r.out.pkgs # <<>> THEN enqueue_all(M1, r.out.pkgs) ELSE M1
        ELSE sweep_drain([M1 EXCEPT !.events = Append(@, FailedEv(op.id, "InvalidOperation"))],
                         op.id)

\* One iteration of `for op in self.sessions.values_mut()`.
sweep_op(M, conn, id) ==
    IF id \notin DOMAIN M.session_request_ids
    THEN {[m |-> [M EXCEPT !.panic = "No session associated to requests"], del |-> FALSE]}
    ELSE LET op      == M.sessions[id]
             session == SessionImpl_new(id, M.assocs, conn, M.session_request_ids[id],
                                        op, M.uuid)
         IN  {[m |-> sweep_result(M, session, op, r), del |-> sweep_deletes(r)]
                : r \in CheckCallback(session)}

\* A removal loop that forgets self.session_request_ids.remove(&session_id).
sweep_remove_sessions_only(M, sessions_to_delete) ==
    [M EXCEPT !.sessions = [o \in DOMAIN @ \ sessions_to_delete |-> @[o]]]

\* for session_id in sessions_to_delete { sessions.remove; session_request_ids.remove }
sweep_remove(M, sessions_to_delete) ==
    [M EXCEPT !.sessions = [o \in DOMAIN @ \ sessions_to_delete |-> @[o]],
              !.session_request_ids = [o \in DOMAIN @ \ sessions_to_delete |-> @[o]]]

\* ------------------------------------------------------------ Requests::abort
\* self.sessions.values_mut() visits the operations in an unspecified order.
RECURSIVE abort_sessions(_, _)
abort_sessions(M, todo) ==
    IF todo = {} THEN {M}
    ELSE UNION {abort_sessions([M EXCEPT !.events = Append(@, FailedEv(id, "Aborted"))],
                               todo \ {id}) : id \in todo}

Requests_abort(M) == abort_sessions(M, DOMAIN M.sessions)

\* ------------------------------------------------------------------ Registry
Registry_register(M, op, conn) ==
    IF conn = NoConn
    THEN {[M EXCEPT !.awaiting = Append(@, op)]}
    ELSE Requests_register(M, conn, op)

Registry_handle(M, pkg, conn) == handle_pkg(M, conn, pkg)

\* A drain that reads self.awaiting.last() and leaves the queue as it is.
awaiting_peek(aw) == [op |-> aw[Len(aw)], rest |-> aw]

\* A drain that takes the operations from the front of the queue.
awaiting_pop_front(aw) == [op |-> aw[1], rest |-> SubSeq(aw, 2, Len(aw))]

\* One iteration of `while let Some(op) = self.awaiting.pop()`.
awaiting_pop(aw) == [op |-> aw[Len(aw)], rest |-> SubSeq(aw, 1, Len(aw) - 1)]

\* A drain that pops the operation and does not register it.
drain_op_drops(M, conn) == {[M EXCEPT !.awaiting = awaiting_pop(M.awaiting).rest]}

drain_op(M, conn) ==
    LET popped == awaiting_pop(M.awaiting)
    IN  Registry_register([M EXCEPT !.awaiting = popped.rest], popped.op, conn)

\* An abort that signals the active operations and forgets the queued ones.
abort_awaiting_skipped(M) == M

\* for op in self.awaiting.iter_mut() { op.failed(OperationError::Aborted) }
abort_awaiting(M) ==
    [M EXCEPT !.events = @ \o [i \in 1 .. Len(M.awaiting) |->
                                  FailedEv(M.awaiting[i].id, "Aborted")]]

Registry_abort(M) == {abort_awaiting(m) : m \in Requests_abort(M)}

\* The operations a step invoked callback cb on.
Signalled(events, cb) == {events[i].op : i \in {i \in 1 .. Len(events) : events[i].cb = cb}}

\* ------------------------------------------------------------------- actions
Idle == [pc |-> "idle", conn |-> NoConn, todo |-> {}, sessions_to_delete |-> {}]

\* The step m ends: `step` of public call `call`, about operation `op`.
Step(m, call, step, op, conn, pkg) ==
    /\ sessions' = m.sessions
    /\ session_request_ids' = m.session_request_ids
    /\ assocs' = m.assocs
    /\ awaiting' = m.awaiting
    /\ uuid' = m.uuid
    /\ panicked' = m.panic
    /\ failed' = failed
    /\ last' = [call |-> call, step |-> step, op |-> op, conn |-> conn, pkg |-> pkg,
                made |-> m.uuid - uuid,
                events |-> m.events, enqueued |-> m.enqueued, dispatch |-> m.dispatch]

\* No step is on record: the record of a step lasts until the program goes on.
NoStep == [call |-> "-", step |-> "-", op |-> NoOp, conn |-> NoConn, pkg |-> NoPkg,
           made |-> 0,
           events |-> <<>>, enqueued |-> <<>>, dispatch |-> NoDispatch]

Init ==
    /\ sessions = EmptyMap
    /\ session_request_ids = EmptyMap
    /\ assocs = EmptyMap
    /\ awaiting = <<>>
    /\ uuid = 1
    /\ unregistered = OperationIds
    /\ panicked = ""
    /\ frame = Idle
    /\ failed = {}
    /\ last = NoStep

\* Operation ids are handed out in construction order, and the operations are
\* registered in that order.
NextOperation == {id \in unregistered : \A other \in unregistered : id <= other}

Runs == panicked = "" /\ last = NoStep

CanCall == Runs /\ frame.pc = "idle"

Register ==
    /\ CanCall
    /\ \E id \in NextOperation, conn \in ConnIds \cup {NoConn} :
        /\ unregistered' = unregistered \ {id}
        /\ \E m \in Registry_register(Cur, OperationWrapper(id), conn) :
              Step(m, "register", "register", id, conn, NoPkg)
    /\ UNCHANGED frame

\* As Register, for an operation whose callbacks break the Session contract.
RegisterRogue ==
    /\ CanCall
    /\ \E id \in NextOperation, conn \in ConnIds \cup {NoConn} :
        /\ unregistered' = unregistered \ {id}
        /\ \E m \in Registry_register(Cur, RogueOperation(id), conn) :
              Step(m, "register", "register", id, conn, NoPkg)
    /\ UNCHANGED frame

Handle ==
    /\ CanCall
    /\ \E pkg \in Pkgs, conn \in ConnIds :
         \E m \in Registry_handle(Cur, pkg, conn) : Step(m, "handle", "handle", NoOp, conn, pkg)
    /\ UNCHANGED <<unregistered, frame>>

Abort ==
    /\ CanCall
    /\ \E m \in Registry_abort(Cur) : Step(m, "abort", "abort", NoOp, NoConn, NoPkg)
    /\ UNCHANGED <<unregistered, frame>>

\* Registry::check_and_retry is entered: Requests::check_and_retry starts its
\* loop over the active operations.
CheckAndRetry ==
    /\ CanCall
    /\ \E conn \in ConnIds :
        /\ frame' = [pc |-> "sweep", conn |-> conn, todo |-> DOMAIN sessions,
                     sessions_to_delete |-> {}]
        /\ Step(Cur, "check_and_retry", "enter", NoOp, conn, NoPkg)
    /\ UNCHANGED unregistered

SweepOp ==
    /\ Runs /\ frame.pc = "sweep"
    /\ \E id \in frame.todo :
         \E x \in sweep_op(Cur, frame.conn, id) :
            /\ Step(x.m, "check_and_retry", "sweep_op", id, frame.conn, NoPkg)
            /\ frame' = [frame EXCEPT !.todo = @ \ {id},
                                      !.sessions_to_delete =
                                          IF x.del THEN @ \cup {id} ELSE @]
    /\ UNCHANGED unregistered

SweepRemove ==
    /\ Runs /\ frame.pc = "sweep" /\ frame.todo = {}
    /\ Step(sweep_remove(Cur, frame.sessions_to_delete),
            "check_and_retry", "sweep_remove", NoOp, frame.conn, NoPkg)
    /\ frame' = [frame EXCEPT !.pc = "drain", !.sessions_to_delete = {}]
    /\ UNCHANGED unregistered

DrainOp ==
    /\ Runs /\ frame.pc = "drain" /\ awaiting # <<>>
    /\ \E m \in drain_op(Cur, frame.conn) :
         Step(m, "check_and_retry", "drain_op", awaiting_pop(awaiting).op.id, frame.conn,
              NoPkg)
    /\ UNCHANGED <<unregistered, frame>>

CheckAndRetryReturn ==
    /\ Runs /\ frame.pc = "drain" /\ awaiting = <<>>
    /\ Step(Cur, "check_and_retry", "return", NoOp, frame.conn, NoPkg)
    /\ frame' = Idle
    /\ UNCHANGED unregistered

\* The program goes on after a step: the record of the step is dropped, so
\* that `last` is about one step only.
Resume ==
    /\ last # NoStep
    /\ last' = NoStep
    /\ UNCHANGED <<sessions, session_request_ids, assocs, awaiting, uuid, unregistered,
                   panicked, frame, failed>>

Next ==
    \/ Register
    \/ Handle
    \/ Abort
    \/ CheckAndRetry
    \/ SweepOp
    \/ SweepRemove
    \/ DrainOp
    \/ CheckAndRetryReturn
    \/ Resume

Spec == Init /\ [][Next]_vars

\* The program goes on after a step, and the operations that received a failed
\* signal in that step are remembered.
ResumeRecording ==
    /\ last # NoStep
    /\ last' = NoStep
    /\ failed' = failed \cup Signalled(last.events, "failed")
    /\ UNCHANGED <<sessions, session_request_ids, assocs, awaiting, uuid, unregistered,
                   panicked, frame>>

NextRecording ==
    \/ Register
    \/ Handle
    \/ Abort
    \/ CheckAndRetry
    \/ SweepOp
    \/ SweepRemove
    \/ DrainOp
    \/ CheckAndRetryReturn
    \/ ResumeRecording

\* The program of Spec, with the failed signals of the past on record.
RecordSpec == Init /\ [][NextRecording]_vars

\* The program with operations of both kinds: those that keep the Session
\* contract and those that call pop and using on ids that are not their own.
NextAny == Next \/ RegisterRogue

AnySpec == Init /\ [][NextAny]_vars

\* ---------------------------------------------------------------- properties
AtRest == frame.pc = "idle"

ActiveOps == DOMAIN sessions \cup DOMAIN session_request_ids

RunningList(o) == IF o \in DOMAIN session_request_ids THEN session_request_ids[o] ELSE <<>>

Owned(o) == {id \in DOMAIN assocs : assocs[id].session = o}

NoDuplicates(s) == \A i, j \in 1 .. Len(s) : s[i] = s[j] => i = j

AwaitingIds == {awaiting[i].id : i \in 1 .. Len(awaiting)}

Count(events, cb, o) == Cardinality({i \in 1 .. Len(events) : events[i].cb = cb /\ events[i].op = o})

\* C1: after every public Registry call, for every operation in the active
\* maps, the ids of its running-list are exactly the ids of the reverse-index
\* entries it owns, and no id is listed twice.
C1_RunningListMatchesAssocs ==
    AtRest =>
        \A o \in ActiveOps :
            /\ Range(RunningList(o)) = Owned(o)
            /\ NoDuplicates(RunningList(o))

\* A dispatch has just been handled, its operation popped a request and now
\* holds its Tracking, and an operation with an outstanding request is active.
C1_Witness ==
    /\ AtRest
    /\ last.step = "handle" /\ last.dispatch.out = "Handled"
    /\ \E o \in DOMAIN sessions : sessions[o].held # {}
    /\ \E o \in DOMAIN sessions : RunningList(o) # <<>>

\* C2: after every public Registry call the operations map and the
\* running-list map have the same keys.
C2_SameKeys == AtRest => DOMAIN sessions = DOMAIN session_request_ids

\* A check_and_retry call has returned, its sweep removed an operation and
\* another operation stays active.
C2_Witness ==
    /\ AtRest
    /\ last.step = "return"
    /\ DOMAIN sessions # {}
    /\ \E o \in OperationIds : o \notin unregistered /\ o \notin ActiveOps /\ o \notin AwaitingIds

\* C3: in every reachable state no operation id is both in the awaiting queue
\* and in the active operations map; the drain takes an operation out of the
\* queue before it enters the active map.
C3_AwaitingOrActive == AwaitingIds \cap DOMAIN sessions = {}

\* The drain has just moved an operation from the awaiting queue into the
\* active map while another operation is still queued.
C3_Witness ==
    /\ last.step = "drain_op"
    /\ last.op \in DOMAIN sessions
    /\ awaiting # <<>>

\* ---- registration
IsRegistration(step) == step.step \in {"register", "drain_op"} /\ step.conn # NoConn

Results(events, cb, o) ==
    {events[i].kind : i \in {i \in 1 .. Len(events) : events[i].cb = cb /\ events[i].op = o}}

SendFailed(step) == IsRegistration(step) /\ "Err" \in Results(step.events, "send", step.op)

\* C4: when an operation is registered with a connection and its send fails,
\* the operations map, the running-list map and the reverse index are what
\* they were before the call, the operation is in neither active map, and no
\* package was forwarded.
C4_FailedSendLeavesNoTrace ==
    [][SendFailed(last') =>
          /\ sessions' = sessions
          /\ session_request_ids' = session_request_ids
          /\ assocs' = assocs
          /\ last'.op \notin DOMAIN sessions' \cup DOMAIN session_request_ids'
          /\ last'.enqueued = <<>>]_vars

\* A send created a request and then failed, while another operation's request
\* is outstanding.
C4_Witness ==
    /\ SendFailed(last)
    /\ last.made >= 1
    /\ assocs # EmptyMap

\* C5: whenever a call drops or removes an operation because of an error (a
\* failing send at registration, a dispatch whose outcome is Failed, a failing
\* check in the sweep), failed was invoked exactly once on that operation in
\* that call, and its running-list and reverse-index entries are gone.
C5_EveryErrorSignalsFailedOnce ==
    /\ SendFailed(last) =>
          /\ Count(last.events, "failed", last.op) = 1
          /\ Owned(last.op) = {} /\ last.op \notin ActiveOps
    /\ (last.step = "handle" /\ last.dispatch.out = "Failed") =>
          /\ Count(last.events, "failed", last.dispatch.owner) = 1
          /\ Owned(last.dispatch.owner) = {} /\ last.dispatch.owner \notin ActiveOps
    /\ (last.step = "sweep_op" /\ "Err" \in Results(last.events, "check_and_retry", last.op)) =>
          /\ Count(last.events, "failed", last.op) = 1
          /\ Owned(last.op) = {} /\ RunningList(last.op) = <<>>

\* ---- dispatch
Found(step) == step.step = "handle" /\ step.dispatch.owner # NoOp

FailingReply(pkg) ==
    \/ pkg.cmd \in {"BadRequest", "NotAuthenticated"}
    \/ pkg.cmd = "NotHandled" /\ pkg.payload = "NotMaster"

ErrorFor(pkg) ==
    CASE pkg.cmd = "BadRequest" -> "ServerError"
      [] pkg.cmd = "NotAuthenticated" -> "AuthenticationRequired"
      [] OTHER -> "NotImplemented"

\* C6: a reply BadRequest, NotAuthenticated or NotHandled(NotMaster) for an
\* outstanding request makes the owning operation receive failed(ServerError),
\* failed(AuthenticationRequired) or failed(NotImplemented), and after the call
\* the operation is in neither active map and owns no reverse-index entry.
C6_FatalReplyRemovesOperation ==
    [][(last'.step = "handle" /\ last'.pkg.correlation \in DOMAIN assocs
            /\ FailingReply(last'.pkg)) =>
          LET o == assocs[last'.pkg.correlation].session
          IN  /\ last'.events = <<FailedEv(o, ErrorFor(last'.pkg))>>
              /\ o \notin DOMAIN sessions' \cup DOMAIN session_request_ids'
              /\ \A id \in DOMAIN assocs' : assocs'[id].session # o]_vars

\* A fatal reply has been dispatched to an operation that had a second
\* outstanding request besides the one replied to.
C6_Witness ==
    /\ Found(last) /\ FailingReply(last.pkg)
    /\ Len(last.dispatch.stepRunnings) >= 2
    /\ last.dispatch.owner \notin ActiveOps

RetryReply(pkg) == pkg.cmd = "NotHandled" /\ pkg.payload \in {"NotReady", "TooBusy"}

RetrySucceeded(step) == Found(step) /\ RetryReply(step.pkg) /\ step.dispatch.out = "Handled"

RetryRanOnce(step) ==
    /\ step.events = <<Ev("retry", step.dispatch.owner, step.pkg.correlation, "Ok", TRUE, TRUE)>>
    /\ step.enqueued = step.dispatch.produced

\* C7 as stated: after a NotHandled reply that is not NotMaster and a retry
\* that succeeds, retry ran once with the correlation id, which was in the
\* running-list and the reverse index when it started, its packages were
\* forwarded, failed was not invoked, and the operation remains active.
C7_RetryKeepsOperation ==
    RetrySucceeded(last) =>
        /\ RetryRanOnce(last)
        /\ last.dispatch.owner \in DOMAIN sessions \cap DOMAIN session_request_ids

\* C7 amended: as above, but the operation remains in the active maps exactly
\* when retry left a request id in its running-list.
C7_RetryKeepsLiveOperation ==
    RetrySucceeded(last) =>
        /\ RetryRanOnce(last)
        /\ last.dispatch.owner \in DOMAIN sessions <=> last.dispatch.stepRunnings # <<>>
        /\ last.dispatch.owner \in DOMAIN session_request_ids
              <=> last.dispatch.stepRunnings # <<>>

\* A retry popped the request replied to, issued a new one, and its package
\* was forwarded; the operation is still active.
C7_Witness ==
    /\ RetrySucceeded(last)
    /\ last.made >= 1
    /\ last.pkg.correlation \notin DOMAIN assocs
    /\ last.enqueued # <<>>
    /\ last.dispatch.owner \in DOMAIN sessions

C9_UnknownReplyIgnored ==
    [][(last'.step = "handle" /\ last'.pkg.correlation \notin DOMAIN assocs) =>
          /\ UNCHANGED <<sessions, session_request_ids, assocs, awaiting>>
          /\ last'.events = <<>>
          /\ last'.enqueued = <<>>]_vars

\* A reply arrived for a request id that was issued and is no longer
\* outstanding, while an operation is active.
C9_Witness ==
    /\ last.step = "handle" /\ last.dispatch.owner = NoOp
    /\ last.pkg.correlation < uuid
    /\ last.pkg.correlation \notin DOMAIN assocs
    /\ DOMAIN sessions # {}
    /\ assocs # EmptyMap

\* C10: register without a connection appends the operation to the awaiting
\* queue, touches nothing else and does not invoke send; each step of the
\* drain in check_and_retry takes the last queued operation out of the queue
\* and invokes its send exactly once, after which the operation is active if
\* and only if send succeeded; check_and_retry returns with an empty queue.
C10_AwaitingIsSentOnCheck ==
    [][/\ (last'.step = "register" /\ last'.conn = NoConn) =>
              /\ awaiting' = Append(awaiting, OperationWrapper(last'.op))
              /\ UNCHANGED <<sessions, session_request_ids, assocs>>
              /\ last'.events = <<>>
       /\ last'.step = "drain_op" =>
              /\ awaiting # <<>>
              /\ last'.op = awaiting[Len(awaiting)].id
              /\ awaiting' = SubSeq(awaiting, 1, Len(awaiting) - 1)
              /\ Len(last'.events) = 1
              /\ last'.events[1].cb = "send" /\ last'.events[1].op = last'.op
              /\ last'.events[1].kind = "Ok" <=> last'.op \in DOMAIN sessions'
              /\ last'.events[1].kind = "Ok" <=> last'.op \in DOMAIN session_request_ids'
       /\ (last'.call = "check_and_retry" /\ frame'.pc = "idle") => awaiting' = <<>>]_vars

\* The drain has just sent a queued operation, which is now active, and the
\* queue is empty.
C10_Witness ==
    /\ last.step = "drain_op"
    /\ last.events # <<>> /\ last.events[1].kind = "Ok"
    /\ last.op \in DOMAIN sessions
    /\ awaiting = <<>>

\* ---- abort
SignalledWith(events, cb, kind) ==
    {events[i].op : i \in {i \in 1 .. Len(events) : events[i].cb = cb /\ events[i].kind = kind}}

\* C11: abort invokes failed(Aborted) exactly once on every operation in the
\* active operations map and exactly once on every operation in the awaiting
\* queue, invokes nothing else, and leaves the operations map, the
\* running-list map, the reverse index and the awaiting queue unchanged.
C11_AbortSignalsAllAndKeepsTables ==
    [][last'.step = "abort" =>
          /\ \A o \in DOMAIN sessions \cup AwaitingIds :
                 Count(last'.events, "failed", o) = 1
          /\ SignalledWith(last'.events, "failed", "Aborted") = DOMAIN sessions \cup AwaitingIds
          /\ Len(last'.events) = Cardinality(DOMAIN sessions \cup AwaitingIds)
          /\ UNCHANGED <<sessions, session_request_ids, assocs, awaiting>>]_vars

\* abort has just run with one operation active, holding an outstanding
\* request, and another one waiting in the queue.
C11_Witness ==
    /\ last.step = "abort"
    /\ DOMAIN sessions # {} /\ assocs # EmptyMap
    /\ awaiting # <<>>

\* ---- sweep
OwnedIn(as, o) == {id \in DOMAIN as : as[id].session = o}

\* Operation b is in the tables after the step exactly as it was before it.
Untouched(b) ==
    /\ b \in DOMAIN sessions' /\ sessions'[b] = sessions[b]
    /\ b \in DOMAIN session_request_ids'
    /\ session_request_ids'[b] = session_request_ids[b]
    /\ OwnedIn(assocs', b) = OwnedIn(assocs, b)
    /\ \A id \in OwnedIn(assocs, b) : assocs'[id] = assocs[id]

\* C12: the sweep visits every operation that was active when it started
\* exactly once and invokes its check_and_retry once; an operation that is
\* done or whose check failed (it then receives failed(InvalidOperation)
\* once) has its running-list drained and its reverse-index entries removed
\* and is scheduled for removal; one that returned packages has them forwarded
\* and keeps the running-list its step left; no iteration touches another
\* operation, and the removal loop takes out of both maps exactly the
\* scheduled operations.
C12_SweepChecksEachOnce ==
    [][/\ last'.step = "enter" =>
              /\ frame'.todo = DOMAIN sessions
              /\ frame'.sessions_to_delete = {}
       /\ last'.step = "sweep_op" =>
              LET o == last'.op
                  d == last'.dispatch
              IN  /\ o \in frame.todo /\ frame'.todo = frame.todo \ {o}
                  /\ Count(last'.events, "check_and_retry", o) = 1
                  /\ \A i \in 1 .. Len(last'.events) : last'.events[i].op = o
                  /\ Count(last'.events, "failed", o) = IF d.out = "Err" THEN 1 ELSE 0
                  /\ d.out = "Err" => SignalledWith(last'.events, "failed", "InvalidOperation") = {o}
                  /\ d.out \in {"Done", "Err"} =>
                        /\ frame'.sessions_to_delete = frame.sessions_to_delete \cup {o}
                        /\ OwnedIn(assocs', o) = {}
                        /\ session_request_ids'[o] = <<>>
                        /\ last'.enqueued = <<>>
                  /\ d.out = "Ok" =>
                        /\ frame'.sessions_to_delete = frame.sessions_to_delete
                        /\ last'.enqueued = d.produced
                        /\ o \in DOMAIN sessions'
                        /\ session_request_ids'[o] = d.stepRunnings
                        /\ OwnedIn(assocs', o) = Range(d.stepRunnings)
                  /\ \A b \in DOMAIN sessions \ {o} : Untouched(b)
       /\ last'.step = "sweep_remove" =>
              /\ frame.todo = {}
              /\ DOMAIN sessions' = DOMAIN sessions \ frame.sessions_to_delete
              /\ DOMAIN session_request_ids' =
                    DOMAIN session_request_ids \ frame.sessions_to_delete
              /\ assocs' = assocs
              /\ \A b \in DOMAIN sessions' : Untouched(b)]_vars

\* The last iteration of a sweep over two operations: this one's check failed
\* while it had an outstanding request, the other one returned its packages
\* and stays active.
C12_Witness ==
    /\ last.step = "sweep_op" /\ frame.todo = {}
    /\ last.dispatch.out = "Err" /\ last.dispatch.startRunnings # <<>>
    /\ Cardinality(DOMAIN sessions) = 2
    /\ Cardinality(frame.sessions_to_delete) = 1
    /\ \E b \in DOMAIN sessions \ frame.sessions_to_delete : RunningList(b) # <<>>

\* ---- Session queries
\* C13: requests() called by an operation at the start of its receive, retry
\* or check_and_retry step returns exactly the Trackings of the request ids in
\* that operation's running-list, and none owned by another operation.
C13_RequestsReturnsOwnTrackings ==
    [][last'.dispatch.owner # NoOp =>
          last'.dispatch.requests =
              {assocs[id].tracker : id \in Range(last'.dispatch.startRunnings)}]_vars

\* C14: pop(id) and using(id) with an id that is not in the calling session's
\* running-list, be it unknown to the table or an outstanding request of
\* another operation, return the not-found error and leave the running-list
\* and the reverse index unchanged (and so never panic).
C14_ForeignIdIsNotFound ==
    /\ \A i \in 1 .. Len(last.dispatch.log) :
          last.dispatch.log[i].not_found /\ last.dispatch.log[i].unchanged
    /\ panicked # "unwrap on None"

\* ---- Session primitives
\* The Session the table hands to active operation o in the current state.
SessionOf(o, conn) ==
    SessionImpl_new(o, assocs, conn, RunningList(o), sessions[o], uuid)

Cmds == {"WriteEvents", "ReadEvent"}

\* C15: on the session of any active operation and for any command,
\* new_request followed by pop of the id it returned finds the request,
\* hands back a Tracking with that id, the command and the session's
\* connection id, and leaves the running-list and the reverse index as they
\* were before new_request; reuse of that Tracking makes the id outstanding
\* again in both, owned by the operation.
C15_NewRequestPopRoundTrip ==
    \A o \in DOMAIN sessions, conn \in ConnIds, cmd \in Cmds :
        LET s      == SessionOf(o, conn)
            s1     == new_request(s, cmd)
            id     == Request_new(s.id, cmd, s.conn, s.uuid).tracker.id
            s2     == pop(s1, id)
            popped == s2.held \ s.held
        IN  /\ pop_found(s1, id) /\ s2.panic = ""
            /\ popped = {[id |-> id, cmd |-> cmd, conn |-> conn]}
            /\ s2.assocs = s.assocs
            /\ s2.runnings = s.runnings
            /\ \A t \in popped :
                  LET s3 == reuse(s2, t)
                  IN  /\ s3.runnings = Append(s.runnings, id)
                      /\ DOMAIN s3.assocs = DOMAIN s.assocs \cup {id}
                      /\ s3.assocs[id] = [session |-> o, tracker |-> t]
                      /\ \A x \in DOMAIN s.assocs : s3.assocs[x] = s.assocs[x]

\* A receive has just issued a request and popped it again: the operation
\* holds the Tracking of the id issued in this step, and the id is not
\* outstanding.
C15_Witness ==
    /\ Found(last) /\ last.made = 1
    /\ \E o \in DOMAIN sessions :
          /\ RunningList(o) # <<>>
          /\ \E t \in sessions[o].held : t.id = uuid - 1 /\ t.id \notin DOMAIN assocs

\* C16: on the session of any active operation, terminate empties the
\* running-list and removes from the reverse index exactly the entries of the
\* ids the running-list held, all of them the operation's own; a second
\* terminate, and the dispatcher's failure cleanup after it, change nothing
\* more and raise no error.
C16_TerminateIsIdempotent ==
    \A o \in DOMAIN sessions, conn \in ConnIds :
        LET s == SessionOf(o, conn)
            t == Session_terminate(s)
        IN  /\ t.runnings = <<>> /\ t.panic = ""
            /\ DOMAIN t.assocs = DOMAIN s.assocs \ Range(s.runnings)
            /\ \A x \in DOMAIN t.assocs : t.assocs[x] = s.assocs[x]
            /\ \A b \in DOMAIN sessions \ {o} : OwnedIn(t.assocs, b) = OwnedIn(s.assocs, b)
            /\ OwnedIn(t.assocs, o) = {}
            /\ Session_terminate(t) = t
            /\ handle_failed(t, "Failed") = t
            /\ terminate(t.assocs, s.runnings) = t.assocs

\* A dispatch ended Failed after the operation's step had issued a request
\* and then called terminate on a running-list that held an earlier request:
\* the failure cleanup ran on the already terminated session.
C16_Witness ==
    /\ Found(last) /\ last.dispatch.out = "Failed"
    /\ last.made = 1
    /\ last.dispatch.startRunnings # <<>>
    /\ last.dispatch.stepRunnings = <<>>
    /\ OwnedIn(assocs, last.dispatch.owner) = {}

\* ---- failure signals
\* C17: once an operation has received failed, no callback is invoked on it
\* in any later step: no second failed, no send, receive, retry or
\* check_and_retry.
C17_FailedIsTerminal ==
    \A i \in 1 .. Len(last.events) : last.events[i].op \notin failed

\* ---- order inside check_and_retry
\* C18: Registry::check_and_retry first sweeps the active operations and only
\* then drains the awaiting queue; the sweep does not touch the queue nor
\* visit a queued operation; each drain step registers the operation queued
\* last (the one registered latest), makes no check_and_retry callback, and
\* no sweep iteration follows it in the same call.
C18_SweepThenDrainInReverse ==
    [][/\ last'.step = "enter" => frame'.pc = "sweep"
       /\ last'.step = "sweep_op" =>
              /\ frame.pc = "sweep"
              /\ awaiting' = awaiting
              /\ last'.op \notin AwaitingIds
       /\ last'.step = "sweep_remove" => frame.pc = "sweep" /\ frame'.pc = "drain"
       /\ last'.step = "drain_op" =>
              /\ frame.pc = "drain" /\ frame.todo = {}
              /\ last'.op = awaiting[Len(awaiting)].id
              /\ \A i \in 1 .. (Len(awaiting) - 1) : awaiting[i].id < last'.op
              /\ awaiting' = SubSeq(awaiting, 1, Len(awaiting) - 1)
              /\ Signalled(last'.events, "check_and_retry") = {}
              /\ Signalled(last'.events, "send") = {last'.op}
       /\ frame.pc = "drain" => frame'.pc \in {"drain", "idle"}]_vars

\* The first drain step of a call with two queued operations: the one queued
\* last has been sent and is active, the one queued first is still waiting.
C18_Witness ==
    /\ last.step = "drain_op" /\ frame.pc = "drain"
    /\ Len(awaiting) = 1 /\ awaiting[1].id < last.op
    /\ last.op \in DOMAIN sessions /\ RunningList(last.op) # <<>>

\* ---- panics
Panics == {"No session associated to request!", "Unknown session!",
           "No session associated to requests"}

\* C19: with operations that keep the Session contract, in every reachable
\* state the owner of every reverse-index entry is in the operations map and
\* in the running-list map, every operation of the operations map is in the
\* running-list map, and neither handle nor the sweep has reached one of its
\* expect panics.
C19_OwnersAreActive ==
    /\ \A id \in DOMAIN assocs :
          assocs[id].session \in DOMAIN sessions \cap DOMAIN session_request_ids
    /\ DOMAIN sessions \subseteq DOMAIN session_request_ids
    /\ panicked \notin Panics

\* handle has dispatched a reply to its operation, which stays active, and
\* the reverse index holds requests of two operations.
C19_Witness ==
    /\ Found(last) /\ last.dispatch.owner \in DOMAIN sessions
    /\ panicked = ""
    /\ \E a, b \in DOMAIN assocs : assocs[a].session # assocs[b].session

\* ---- isolation
\* C20: a handle call dispatched to the operation owning the correlation id,
\* whether it ends Handled or Failed, invokes callbacks on that operation
\* only and leaves every other active operation in both maps with the
\* wrapper, the running-list and the reverse-index entries it had.
C20_DispatchLeavesOthersUntouched ==
    [][(last'.step = "handle" /\ last'.pkg.correlation \in DOMAIN assocs) =>
          LET a == assocs[last'.pkg.correlation].session
          IN  /\ last'.dispatch.owner = a
              /\ last'.dispatch.out \in {"Handled", "Failed"}
              /\ \A i \in 1 .. Len(last'.events) : last'.events[i].op = a
              /\ \A b \in (DOMAIN sessions \cup DOMAIN session_request_ids) \ {a} :
                    Untouched(b)
              /\ awaiting' = awaiting]_vars

\* A dispatch has ended Failed and removed its operation, while another
\* operation with an outstanding request stays active.
C20_Witness ==
    /\ Found(last) /\ last.dispatch.out = "Failed"
    /\ last.dispatch.owner \notin ActiveOps
    /\ \E b \in DOMAIN sessions : RunningList(b) # <<>> /\ OwnedIn(assocs, b) # {}

====
